---- MODULE Spec2Model ----
(***************************************************************************)
(* State-machine model of the image analysis pipeline                      *)
(* (detection/opencv_detector_python_backup.py, class OpenCVObjectDetector)*)
(* and of the example webhook receiver                                     *)
(* (cpp-object-detection/examples/webhook_receiver.py, WebhookHandler).    *)
(*                                                                         *)
(* Floating point confidences are fixed-point integers: ConfOne is 1.0.    *)
(* Results of OpenCV calls are inputs drawn from small sets.               *)
(***************************************************************************)
EXTENDS Integers, Sequences, FiniteSets, TLC

\* ---------------------------------------------------------------- bounds
\* longest list of rectangles the HOG people detector returns
MaxRects == 2
\* longest list of contours findContours returns
MaxContours == 1

\* ------------------------------------------------------- program constants
\* 1.0 in confidence units (min(confidence, 1.0))
ConfOne == 100000
\* self.confidence_threshold = 0.5
confidence_threshold == 50000
\* self.nms_threshold = 0.4
nms_threshold == 40000
\* HOG acceptance: confidence > 0.3
HogMinConf == 30000
\* HOG default confidence 0.6 when a rectangle has no weight
HogDefaultConf == 60000
\* vehicle: area > 5000, w > 100, h > 50, min(0.7, area / 50000)
VehicleMinArea == 5000
VehicleMinW == 100
VehicleMinH == 50
VehicleMaxConf == 70000
\* animal: 2000 < area < 50000, texture_var > 100, min(0.6, ...)
AnimalMinArea == 2000
AnimalMaxArea == 50000
AnimalMinVar == 100
AnimalMaxConf == 60000
\* machinery: len(lines) > 20, len(line_regions) > 10, w > 100 and h > 100
MachineryMinLines == 20
MachineryMinRegions == 10
MachineryMinSide == 100
MachineryMaxConf == 70000
\* day/night: avg_brightness > 80, avg_brightness > 50, hist[128:]
DayBrightness == 80
DuskBrightness == 50
HistSplit == 128
HistBins == 256
\* the orchestrator runs the heuristics when len(detections) < 2
MinPrimary == 2

\* ------------------------------------------------------------ arithmetic
Min(a, b) == IF a <= b THEN a ELSE b

\* Python int(): truncation toward zero of n / d, d > 0
TruncDiv(n, d) == IF n >= 0 THEN n \div d ELSE -((-n) \div d)

RECURSIVE SumSeq(_)
SumSeq(s) == IF s = <<>> THEN 0 ELSE Head(s) + SumSeq(Tail(s))

\* all sequences over S of length 0..n
SeqsUpTo(S, n) == UNION {[1..k -> S] : k \in 0..n}

\* ------------------------------------------------------ model files on disk
WeightsPath == "/opt/yolo/yolov3.weights"
ConfigPath == "/opt/yolo/yolov3.cfg"
TinyWeightsPath == "/opt/yolo/yolov3-tiny.weights"
TinyConfigPath == "/opt/yolo/yolov3-tiny.cfg"
ModelFiles == {WeightsPath, ConfigPath, TinyWeightsPath, TinyConfigPath}

\* os.path.exists
Exists(fs, path) == path \in fs

\* the handle cv2.dnn.readNetFromDarknet builds from a configuration file
NetOf(config_path) ==
    IF config_path = ConfigPath THEN "yolov3" ELSE "yolov3-tiny"

NoNet == "None"

\* the (weights, config) pair _initialize_detector settles on (lines 34-41)
ChosenPaths(fs) ==
    IF ~Exists(fs, WeightsPath)
    THEN [weights |-> TinyWeightsPath, config |-> TinyConfigPath]
    ELSE [weights |-> WeightsPath, config |-> ConfigPath]

\* whether _initialize_detector reaches readNetFromDarknet (line 43)
AttemptsLoad(fs) ==
    /\ Exists(fs, ChosenPaths(fs).weights)
    /\ Exists(fs, ChosenPaths(fs).config)

\* self.net after _initialize_detector; readRaises: building the network or
\* reading its layers raised and the handler on line 74 reset the handle
LoadedNet(fs, readRaises) ==
    IF AttemptsLoad(fs) /\ ~readRaises
    THEN NetOf(ChosenPaths(fs).config)
    ELSE NoNet

\* ------------------------------------------------------------ class names
\* the built-in COCO list (lines 57-69)
CocoClasses ==
    << "person", "bicycle", "car", "motorcycle", "airplane", "bus", "train", "truck",
       "boat", "traffic light", "fire hydrant", "stop sign", "parking meter", "bench",
       "bird", "cat", "dog", "horse", "sheep", "cow", "elephant", "bear", "zebra", "giraffe",
       "backpack", "umbrella", "handbag", "tie", "suitcase", "frisbee", "skis", "snowboard",
       "sports ball", "kite", "baseball bat", "baseball glove", "skateboard", "surfboard",
       "tennis racket", "bottle", "wine glass", "cup", "fork", "knife", "spoon", "bowl",
       "banana", "apple", "sandwich", "orange", "broccoli", "carrot", "hot dog", "pizza",
       "donut", "cake", "chair", "couch", "potted plant", "bed", "dining table", "toilet",
       "tv", "laptop", "mouse", "remote", "keyboard", "cell phone", "microwave", "oven",
       "toaster", "sink", "refrigerator", "book", "clock", "vase", "scissors", "teddy bear",
       "hair drier", "toothbrush" >>

\* a class list read from /opt/yolo/coco.names: shorter, and not lower case
FileClasses == << "Person", "Bicycle", "CAR", "motorcycle", "airplane", "Bus", "Train" >>

\* self.classes after _initialize_detector (lines 52-69)
LoadedClasses(namesExist) == IF namesExist THEN FileClasses ELSE CocoClasses

\* str.lower() on the class names that occur
Lower(s) ==
    CASE s = "Person" -> "person"
      [] s = "Bicycle" -> "bicycle"
      [] s = "CAR" -> "car"
      [] s = "Bus" -> "bus"
      [] s = "Train" -> "train"
      [] s = "PERSON" -> "person"
      [] s = "Dog" -> "dog"
      [] s = "ZEBRA" -> "zebra"
      [] s = "Giraffe" -> "giraffe"
      [] s = "Truck" -> "truck"
      [] s = "BUS" -> "bus"
      [] s = "TRAIN" -> "train"
      [] s = "Boat" -> "boat"
      [] s = "Motorcycle" -> "motorcycle"
      [] s = "AirPlane" -> "airplane"
      [] s = "Kite" -> "kite"
      [] s = "Traffic Light" -> "traffic light"
      [] s = "Unknown" -> "unknown"
      [] OTHER -> s

animals == {"bird", "cat", "dog", "horse", "sheep", "cow", "elephant", "bear", "zebra", "giraffe"}
vehicles == {"car", "motorcycle", "bus", "truck", "bicycle", "airplane", "boat"}
humans == {"person"}
machinery == {"truck", "bus", "train"}

\* mutant of CategorizeObject: the name is looked up as it was given
CategorizeObjectCaseSensitive(class_name) ==
    IF class_name \in humans THEN "human"
    ELSE IF class_name \in animals THEN "animal"
    ELSE IF class_name \in machinery THEN "machinery"
    ELSE IF class_name \in vehicles THEN "vehicle"
    ELSE class_name

\* _categorize_object (lines 331-349)
CategorizeObject(class_name) ==
    LET class_name_lower == Lower(class_name) IN
    IF class_name_lower \in humans THEN "human"
    ELSE IF class_name_lower \in animals THEN "animal"
    ELSE IF class_name_lower \in machinery THEN "machinery"
    ELSE IF class_name_lower \in vehicles THEN "vehicle"
    ELSE class_name_lower

\* ------------------------------------------------------- primary detector
\* number of class scores per anchor of the network
NumScores == 80

\* an anchor with one non-zero class score; cx, cy, w, h in thousandths
Anchor(cx, cy, w, h, id, score) ==
    [cx |-> cx, cy |-> cy, w |-> w, h |-> h,
     scores |-> [i \in 0..(NumScores - 1) |-> IF i = id THEN score ELSE 0]]

\* np.argmax: the first index that holds the largest score
ArgMax(scores) ==
    LET best == CHOOSE v \in {scores[i] : i \in DOMAIN scores} :
                    \A i \in DOMAIN scores : scores[i] <= v
    IN CHOOSE i \in DOMAIN scores :
          scores[i] = best /\ \A j \in DOMAIN scores : j < i => scores[j] # best

\* bounding box of one anchor in pixels (lines 125-133)
AnchorBox(a, width, height) ==
    LET center_x == TruncDiv(a.cx * width, 1000)
        center_y == TruncDiv(a.cy * height, 1000)
        w == TruncDiv(a.w * width, 1000)
        h == TruncDiv(a.h * height, 1000)
    IN << TruncDiv(2 * center_x - w, 2), TruncDiv(2 * center_y - h, 2), w, h >>

\* the parse loop (lines 113-135): candidates above the confidence threshold
RECURSIVE ParseOutputs(_, _, _)
ParseOutputs(outputs, width, height) ==
    IF outputs = <<>> THEN <<>>
    ELSE LET a == Head(outputs)
             class_id == ArgMax(a.scores)
             confidence == a.scores[class_id]
             rest == ParseOutputs(Tail(outputs), width, height)
         IN IF confidence > confidence_threshold
            THEN << [box |-> AnchorBox(a, width, height),
                     confidence |-> confidence,
                     class_id |-> class_id] >> \o rest
            ELSE rest

Max(a, b) == IF a >= b THEN a ELSE b

\* area of the intersection of two [x, y, w, h] rectangles
InterArea(a, b) ==
    LET x1 == Max(a[1], b[1])
        y1 == Max(a[2], b[2])
        w == Min(a[1] + a[3], b[1] + b[3]) - x1
        h == Min(a[2] + a[4], b[2] + b[4]) - y1
    IN IF w <= 0 \/ h <= 0 THEN 0 ELSE w * h

\* intersection-over-union of a and b exceeds thr (thr in confidence units,
\* compared in hundredths to stay within 32 bits); two empty rectangles count
\* as fully overlapping
OverlapAbove(a, b, thr) ==
    LET inter == InterArea(a, b)
        union == a[3] * a[4] + b[3] * b[4] - inter
    IN IF a[3] * a[4] + b[3] * b[4] <= 0 THEN ConfOne > thr
       ELSE inter * (ConfOne \div 1000) > (thr \div 1000) * union

\* indices of cands by confidence descending, equal confidences in list order
RECURSIVE SortedIndices(_, _)
SortedIndices(cands, left) ==
    IF left = {} THEN <<>>
    ELSE LET i == CHOOSE k \in left :
                    \A j \in left :
                        \/ cands[k].confidence > cands[j].confidence
                        \/ cands[k].confidence = cands[j].confidence /\ k <= j
         IN <<i>> \o SortedIndices(cands, left \ {i})

\* mutant of Suppress: a box is compared with the last kept box only
RECURSIVE SuppressAgainstLastKept(_, _, _, _)
SuppressAgainstLastKept(cands, order, kept, thr) ==
    IF order = <<>> THEN kept
    ELSE LET i == Head(order)
             keep == \/ kept = <<>>
                     \/ ~OverlapAbove(cands[i].box, cands[kept[Len(kept)]].box, thr)
         IN SuppressAgainstLastKept(cands, Tail(order),
                                    IF keep THEN Append(kept, i) ELSE kept, thr)

\* greedy suppression over the sorted indices
RECURSIVE Suppress(_, _, _, _)
Suppress(cands, order, kept, thr) ==
    IF order = <<>> THEN kept
    ELSE LET i == Head(order)
             keep == \A k \in 1..Len(kept) :
                        ~OverlapAbove(cands[i].box, cands[kept[k]].box, thr)
         IN Suppress(cands, Tail(order), IF keep THEN Append(kept, i) ELSE kept, thr)

\* cv2.dnn.NMSBoxes (line 138): the kept indices, best first
NMSBoxes(cands, score_threshold, thr) ==
    LET above == {i \in 1..Len(cands) : cands[i].confidence > score_threshold}
    IN Suppress(cands, SortedIndices(cands, above), <<>>, thr)

\* one detection record (lines 143-149)
YoloDetection(cand, classes) ==
    LET class_name == IF cand.class_id < Len(classes)
                      THEN classes[cand.class_id + 1] ELSE "unknown"
    IN [class |-> class_name,
        confidence |-> cand.confidence,
        category |-> CategorizeObject(class_name),
        bbox |-> cand.box]

\* _detect_with_yolo after inference (lines 112-151)
YoloDetections(outputs, width, height, classes) ==
    LET cands == ParseOutputs(outputs, width, height)
        indices == NMSBoxes(cands, confidence_threshold, nms_threshold)
    IN [k \in 1..Len(indices) |-> YoloDetection(cands[indices[k]], classes)]

\* ----------------------------------------------------- heuristic detectors
Detection(class, confidence, category, bbox) ==
    [class |-> class, confidence |-> confidence, category |-> category, bbox |-> bbox]

\* _detect_humans_hog, the loop over rects (lines 186-194); i counts from 1
RECURSIVE HogLoop(_, _, _)
HogLoop(rects, weights, i) ==
    IF i > Len(rects) THEN <<>>
    ELSE LET confidence == IF i <= Len(weights) THEN weights[i] ELSE HogDefaultConf
             rest == HogLoop(rects, weights, i + 1)
         IN IF confidence > HogMinConf
            THEN << Detection("person", Min(confidence, ConfOne), "human", rects[i]) >> \o rest
            ELSE rest

\* _detect_humans_hog (lines 175-198); raises: an OpenCV call failed inside try
DetectHumansHog(hog, raises) ==
    IF raises THEN <<>> ELSE HogLoop(hog.rects, hog.weights, 1)

\* _has_artificial_colors (lines 317-329): high_sat_ratio > 0.3
HasArtificialColors(roi) ==
    IF roi.size = 0 THEN FALSE
    ELSE 10 * roi.highSat > 3 * roi.size

\* mutant of VehicleConfidence: the cap of 0.7 is forgotten
VehicleConfidenceUncapped(area) == 2 * area

\* min(0.7, area / 50000) in confidence units
VehicleConfidence(area) == Min(VehicleMaxConf, 2 * area)

\* _detect_vehicles_contours, the loop over contours (lines 210-228);
\* 1.2 < w / h < 4.0 is 12 * h < 10 * w and w < 4 * h
RECURSIVE VehicleLoop(_)
VehicleLoop(contours) ==
    IF contours = <<>> THEN <<>>
    ELSE LET c == Head(contours)
             w == c.rect[3]
             h == c.rect[4]
             rest == VehicleLoop(Tail(contours))
         IN IF /\ c.area > VehicleMinArea
               /\ 12 * h < 10 * w /\ w < 4 * h /\ w > VehicleMinW /\ h > VehicleMinH
               /\ HasArtificialColors(c.roi)
            THEN << Detection("vehicle", VehicleConfidence(c.area), "vehicle", c.rect) >> \o rest
            ELSE rest

\* mutant of DetectVehiclesContours: a failure keeps the detections of the loop
DetectVehiclesContoursKeepsPartial(contours, raises) == VehicleLoop(contours)

\* _detect_vehicles_contours (lines 200-232)
DetectVehiclesContours(contours, raises) ==
    IF raises THEN <<>> ELSE VehicleLoop(contours)

\* min(0.6, texture_var / 1000 + area / 100000) in confidence units
AnimalConfidence(texture_var, area) == Min(AnimalMaxConf, 100 * texture_var + area)

\* _detect_animals_texture, the loop over contours (lines 249-268);
\* 0.5 < w / h < 3.0 is h < 2 * w and w < 3 * h
RECURSIVE AnimalLoop(_)
AnimalLoop(contours) ==
    IF contours = <<>> THEN <<>>
    ELSE LET c == Head(contours)
             w == c.rect[3]
             h == c.rect[4]
             rest == AnimalLoop(Tail(contours))
         IN IF /\ AnimalMinArea < c.area /\ c.area < AnimalMaxArea
               /\ h < 2 * w /\ w < 3 * h
               /\ c.texture_var > AnimalMinVar
            THEN << Detection("animal", AnimalConfidence(c.texture_var, c.area),
                              "animal", c.rect) >> \o rest
            ELSE rest

\* _detect_animals_texture (lines 234-272)
DetectAnimalsTexture(contours, raises) ==
    IF raises THEN <<>> ELSE AnimalLoop(contours)

\* min(0.7, len(lines) / 100) in confidence units
MachineryConfidence(n) == Min(MachineryMaxConf, 1000 * n)

SetMin(S) == CHOOSE v \in S : \A u \in S : v <= u
SetMax(S) == CHOOSE v \in S : \A u \in S : u <= v

\* _detect_machinery_edges after HoughLinesP (lines 284-311);
\* hough.found is "lines is not None", a line is <<x1, y1, x2, y2>>
MachineryFromLines(hough) ==
    IF hough.found /\ Len(hough.lines) > MachineryMinLines
    THEN LET lines == hough.lines
             line_regions == lines
         IN IF Len(line_regions) > MachineryMinRegions
            THEN LET xs == {lines[i][1] : i \in 1..Len(lines)} \cup
                           {lines[i][3] : i \in 1..Len(lines)}
                     ys == {lines[i][2] : i \in 1..Len(lines)} \cup
                           {lines[i][4] : i \in 1..Len(lines)}
                     x_min == SetMin(xs)
                     y_min == SetMin(ys)
                     w == SetMax(xs) - x_min
                     h == SetMax(ys) - y_min
                 IN IF w > MachineryMinSide /\ h > MachineryMinSide
                    THEN << Detection("machinery", MachineryConfidence(Len(lines)),
                                      "machinery", <<x_min, y_min, w, h>>) >>
                    ELSE <<>>
            ELSE <<>>
    ELSE <<>>

\* _detect_machinery_edges (lines 274-315)
DetectMachineryEdges(hough, raises) ==
    IF raises THEN <<>> ELSE MachineryFromLines(hough)

\* ----------------------------------------------------------- scene classifier
\* cv2.cvtColor(image, COLOR_BGR2GRAY) on one 8-bit <<b, g, r>> pixel
GrayOf(p) == (p[1] * 1868 + p[2] * 9617 + p[3] * 4899 + 8192) \div 16384

ToGray(pixels) == [i \in 1..Len(pixels) |-> GrayOf(pixels[i])]

\* cv2.calcHist(..., [256], [0, 256]): pixels per brightness value
CalcHist(gray) ==
    [b \in 0..(HistBins - 1) |-> Cardinality({i \in 1..Len(gray) : gray[i] = b})]

\* np.sum(hist[lo:hi])
RECURSIVE SumHist(_, _, _)
SumHist(hist, lo, hi) ==
    IF lo >= hi THEN 0
    ELSE IF hi = lo + 1 THEN hist[lo]
    ELSE LET mid == (lo + hi) \div 2
         IN SumHist(hist, lo, mid) + SumHist(hist, mid, hi)

\* mutant of AnalyzeDayNight: avg_brightness >= 80 instead of > 80
AnalyzeDayNightAtLeast(pixels) ==
    LET gray == ToGray(pixels)
        total == SumSeq(gray)
        n == Len(gray)
        hist == CalcHist(gray)
        bright_pixels == SumHist(hist, HistSplit, HistBins)
        dark_pixels == SumHist(hist, 0, HistSplit)
    IN \/ total >= DayBrightness * n
       \/ (total > DuskBrightness * n /\ 2 * bright_pixels > 3 * dark_pixels)

\* _analyze_day_night (lines 78-96); avg > t is sum > t * n, and
\* bright > dark * 1.5 is 2 * bright > 3 * dark
AnalyzeDayNight(pixels) ==
    LET gray == ToGray(pixels)
        total == SumSeq(gray)
        n == Len(gray)
        hist == CalcHist(gray)
        bright_pixels == SumHist(hist, HistSplit, HistBins)
        dark_pixels == SumHist(hist, 0, HistSplit)
    IN \/ total > DayBrightness * n
       \/ (total > DuskBrightness * n /\ 2 * bright_pixels > 3 * dark_pixels)

\* ------------------------------------------------------------ orchestrator
\* mutant of MergeDetections: every heuristic detection is appended
MergeDetectionsKeepAll(dets, opencv) == dets \o opencv

\* the merge loop of analyze_image (lines 373-375)
RECURSIVE MergeDetections(_, _)
MergeDetections(dets, opencv) ==
    IF opencv = <<>> THEN dets
    ELSE LET det == Head(opencv)
             present == \E k \in 1..Len(dets) : dets[k].category = det.category
         IN MergeDetections(IF present THEN dets ELSE Append(dets, det), Tail(opencv))

\* set(det["category"] for det in detections) (line 378)
RECURSIVE CategorySet(_)
CategorySet(dets) ==
    IF dets = <<>> THEN {} ELSE {Head(dets).category} \cup CategorySet(Tail(dets))

GeneralScene == {"general scene"}

\* mutant of Categories: the placeholder for an empty list is forgotten
CategoriesNoPlaceholder(dets) == CategorySet(dets)

\* categories of the record (lines 378-380), as a set: list(set(..)) has no order
Categories(dets) ==
    LET categories == CategorySet(dets)
    IN IF categories = {} THEN GeneralScene ELSE categories

\* the record analyze_image returns normally (lines 383-393)
NormalResult(day, dets, path) ==
    [kind |-> "normal",
     isDay |-> day,
     objects |-> Categories(dets),
     details |-> dets,
     summary |-> [time_of_day |-> IF day THEN "day" ELSE "night",
                  objects_text |-> Categories(dets)],
     photoPath |-> path]

\* the record the exception handler returns (lines 397-403)
DegradedResult(e, path) ==
    [kind |-> "degraded",
     isDay |-> TRUE,
     objects |-> GeneralScene,
     details |-> <<>>,
     summary |-> [error |-> e.text],
     photoPath |-> path]

\* the exception types raised inside analyze_image
ValueError(path) == [type |-> "ValueError", text |-> <<"Could not load image", path>>]
InferenceError == [type |-> "cv2.error", text |-> <<"inference failed">>]
NoException == [type |-> "none", text |-> <<>>]

\* mutant of Caught: the handler catches OpenCV errors only
CaughtOpenCvOnly(e) == e.type = "cv2.error"

\* "except Exception" (line 395) catches both
Caught(e) == e.type \in {"ValueError", "cv2.error"}

NoResult == [kind |-> "none"]

\* mutant of AfterPrimary: the heuristics run only when nothing was found
AfterPrimaryOnlyWhenEmpty(dets) == IF Len(dets) < 1 THEN "human" ELSE "assemble"

\* where analyze_image goes after the primary stage (line 370)
AfterPrimary(dets) == IF Len(dets) < MinPrimary THEN "human" ELSE "assemble"

\* ------------------------------------------------------------------ inputs
Uniform(n, v) == [i \in 1..n |-> <<v, v, v>>]

NoImage == [loaded |-> FALSE]

Image(pixels, scene) ==
    [loaded |-> TRUE, width |-> 640, height |-> 480, pixels |-> pixels, scene |-> scene]

Paths ==
    {"dark.jpg", "bright.jpg", "dusk80.jpg", "dusk_hist.jpg", "dusk_127.jpg",
     "dawn81.jpg", "blue.jpg", "green.jpg", "even.jpg", "missing.jpg"}

\* cv2.imread (line 355): the image stored under a path, NoImage for None
Imread(path) ==
    CASE path = "dark.jpg" -> Image(Uniform(4, 10), "blank")
      [] path = "bright.jpg" -> Image(Uniform(4, 200), "person")
      [] path = "dusk80.jpg" -> Image(Uniform(1, 160) \o Uniform(1, 0), "truck_bus")
      [] path = "dusk_hist.jpg" -> Image(Uniform(5, 128) \o Uniform(3, 0), "crowd")
      [] path = "dusk_127.jpg" -> Image(Uniform(5, 127) \o Uniform(3, 0), "dup")
      [] path = "dawn81.jpg" -> Image(Uniform(3, 81), "car")
      [] path = "blue.jpg" -> Image(<< <<255, 0, 0>>, <<255, 0, 0>> >>, "malformed")
      [] path = "green.jpg" -> Image(<< <<0, 255, 0>>, <<0, 255, 0>> >>, "kite")
      [] path = "even.jpg" -> Image(Uniform(3, 128) \o Uniform(2, 0), "weak")
      [] OTHER -> NoImage

\* net.forward raises on this input (line 110)
ForwardRaises(scene) == scene = "malformed"

\* net.forward (line 110): the anchors of each scene, all outputs in one list
Forward(scene) ==
    CASE scene = "weak" -> << Anchor(500, 500, 200, 200, 0, 50000) >>
      [] scene = "person" -> << Anchor(500, 500, 200, 400, 0, 90000),
                                Anchor(100, 100, 100, 100, 16, 50000) >>
      [] scene = "truck_bus" -> << Anchor(250, 250, 300, 300, 7, 80000),
                                   Anchor(750, 750, 300, 300, 5, 70000),
                                   Anchor(750, 250, 100, 300, 0, 95000) >>
      [] scene = "crowd" -> << Anchor(500, 500, 200, 400, 0, 80000),
                               Anchor(510, 500, 200, 400, 0, 90000),
                               Anchor(200, 800, 100, 100, 16, 60000) >>
      [] scene = "dup" -> << Anchor(300, 300, 200, 200, 16, 60000),
                             Anchor(310, 310, 200, 200, 16, 90000) >>
      [] scene = "car" -> << Anchor(500, 500, 400, 300, 2, 55000) >>
      [] scene = "kite" -> << Anchor(500, 200, 100, 100, 33, 70000) >>
      [] OTHER -> <<>>

\* hog.detectMultiScale (line 184): n rects with a weight each, or one rect
\* that has no weight
HogRect == <<40, 20, 64, 128>>
HogWeights == {30000, 30001, 150000}
HogOutputs ==
    {[rects |-> [i \in 1..Len(w) |-> HogRect], weights |-> w] :
        w \in SeqsUpTo(HogWeights, MaxRects)}
    \cup {[rects |-> <<HogRect>>, weights |-> <<>>]}

\* a contour as the vehicle detector reads it: contourArea, boundingRect and
\* the saturation count of the region
VehicleContour(area, w, h, highSat) ==
    [area |-> area, rect |-> <<5, 5, w, h>>, roi |-> [size |-> w * h, highSat |-> highSat]]
VehicleContours ==
    {VehicleContour(40000, 300, 150, 20000), VehicleContour(5001, 110, 60, 6000),
     VehicleContour(5000, 110, 60, 6000), VehicleContour(20000, 240, 200, 30000),
     VehicleContour(20000, 200, 100, 6000), VehicleContour(6000, 100, 60, 6000)}

\* a contour as the animal detector reads it
AnimalContour(area, w, h, texture_var) ==
    [area |-> area, rect |-> <<7, 7, w, h>>, texture_var |-> texture_var]
AnimalContours ==
    {AnimalContour(2001, 60, 50, 101), AnimalContour(30000, 200, 180, 900),
     AnimalContour(2000, 60, 50, 500), AnimalContour(50000, 250, 220, 500),
     AnimalContour(3000, 50, 100, 500), AnimalContour(3000, 60, 50, 100)}

\* n line segments whose end points span w by h
Lines(n, w, h) ==
    [found |-> TRUE,
     lines |-> [i \in 1..n |-> IF i = 1 THEN <<0, 0, w, h>> ELSE <<10, 10, 60, 10>>]]
\* cv2.HoughLinesP (line 282)
HoughOutputs ==
    {[found |-> FALSE, lines |-> <<>>], Lines(20, 300, 300), Lines(21, 300, 300),
     Lines(21, 100, 300), Lines(80, 200, 101)}

\* -------------------------------------------------------------------- state
VARIABLES
    pc,                \* where the process is
    net,               \* self.net
    classes,           \* self.classes
    initEnv,           \* what _initialize_detector met: files on disk, a raise
    netInput,          \* the blob last given to net.setInput
    image_path,        \* argument of analyze_image
    image,             \* the image cv2.imread returned
    is_day,            \* local is_day
    detections,        \* local detections
    opencv_detections, \* the list _detect_with_opencv_features builds
    primary,           \* whether _detect_with_yolo returned, and what
    heurCalls,         \* the heuristic detectors invoked, in call order
    heurFailed,        \* the heuristic detectors whose try block failed
    raisedExc,         \* the exception raised inside analyze_image's try block
    escaped,           \* an exception left analyze_image
    result             \* the record analyze_image returned

detectorVars ==
    <<pc, net, classes, initEnv, netInput, image_path, image, is_day, detections,
      opencv_detections, primary, heurCalls, heurFailed, raisedExc, escaped, result>>

\* the webhook receiver's state
VARIABLES
    whPc,        \* "waiting" for a request, "handling" one, or "handled"
    request,     \* the POST request being handled
    outcome      \* what do_POST did with the request

webhookVars == <<whPc, request, outcome>>

\* _detect_with_yolo applied to the outputs of one inference
VARIABLES
    yoloPc,        \* "idle", "forwarded", "returned" or "resuppressed"
    yoloOutputs,   \* local outputs: what net.forward returned
    yolo_result,   \* the list _detect_with_yolo returned
    resuppressed   \* the indices NMSBoxes keeps of the returned list

yoloVars == <<yoloPc, yoloOutputs, yolo_result, resuppressed>>

\* _categorize_object applied to one class name
VARIABLES
    catPc,         \* "idle", "called" or "returned"
    catArg,        \* argument class_name
    catResult      \* the string _categorize_object returned

categoryVars == <<catPc, catArg, catResult>>

\* analyze_image invocations running at once on one detector
VARIABLES
    callPc,        \* where each invocation is
    callImage,     \* local image of each invocation
    callPrimary,   \* what _detect_with_yolo returned to each invocation
    callOverlap    \* another invocation was between setInput and forward's
                   \* return while this one was

callVars == <<callPc, callImage, callPrimary, callOverlap>>

\* the state outside the detector process
otherVars == <<webhookVars, yoloVars, categoryVars, callVars>>

NoEnv == [files |-> {}, names |-> FALSE, raised |-> FALSE, fresh |-> FALSE]
NotRun == [ran |-> FALSE, dets |-> <<>>]

\* after __init__ lines 19-24, before _initialize_detector
DetectorInit ==
    /\ pc = "new"
    /\ net = NoNet
    /\ classes = <<>>
    /\ initEnv = NoEnv
    /\ netInput = "none"
    /\ image_path = ""
    /\ image = NoImage
    /\ is_day = FALSE
    /\ detections = <<>>
    /\ opencv_detections = <<>>
    /\ primary = NotRun
    /\ heurCalls = <<>>
    /\ heurFailed = {}
    /\ raisedExc = NoException
    /\ escaped = FALSE
    /\ result = NoResult

\* _initialize_detector (lines 29-76)
InitializeDetector ==
    /\ UNCHANGED otherVars
    /\ pc = "new"
    /\ \E fs \in SUBSET ModelFiles, namesExist \in BOOLEAN, readRaises \in BOOLEAN :
          LET raised == AttemptsLoad(fs) /\ readRaises IN
          /\ net' = LoadedNet(fs, readRaises)
          /\ classes' = IF raised THEN <<>> ELSE LoadedClasses(namesExist)
          /\ initEnv' = [files |-> fs, names |-> namesExist, raised |-> raised,
                         fresh |-> TRUE]
    /\ pc' = "idle"
    /\ UNCHANGED <<netInput, image_path, image, is_day, detections, opencv_detections,
                   primary, heurCalls, heurFailed, raisedExc, escaped, result>>

\* raise e inside the try block of analyze_image: the handler of lines 395-403
Raise(e, path) ==
    /\ raisedExc' = e
    /\ IF Caught(e)
       THEN /\ result' = DegradedResult(e, path)
            /\ escaped' = FALSE
       ELSE /\ result' = NoResult
            /\ escaped' = TRUE
    /\ pc' = "done"

\* analyze_image is called and loads the image (lines 351-357)
AnalyzeImage ==
    /\ UNCHANGED otherVars
    /\ pc = "idle"
    /\ \E path \in Paths :
          /\ image_path' = path
          /\ image' = Imread(path)
          /\ IF ~image'.loaded
             THEN Raise(ValueError(path), path)
             ELSE /\ pc' = "day_night"
                  /\ raisedExc' = NoException
                  /\ escaped' = FALSE
                  /\ result' = NoResult
    /\ initEnv' = [initEnv EXCEPT !.fresh = FALSE, !.files = {}, !.names = FALSE,
                                  !.raised = FALSE]
    /\ is_day' = FALSE
    /\ detections' = <<>>
    /\ opencv_detections' = <<>>
    /\ primary' = NotRun
    /\ heurCalls' = <<>>
    /\ heurFailed' = {}
    /\ UNCHANGED <<net, classes, netInput>>

\* lines 360-366
DayNight ==
    /\ UNCHANGED otherVars
    /\ pc = "day_night"
    /\ is_day' = AnalyzeDayNight(image.pixels)
    /\ detections' = <<>>
    /\ pc' = IF net # NoNet THEN "yolo_input" ELSE AfterPrimary(<<>>)
    /\ UNCHANGED <<net, classes, initEnv, netInput, image_path, image, opencv_detections,
                   primary, heurCalls, heurFailed, raisedExc, escaped, result>>

\* _detect_with_yolo up to net.setInput (lines 100-107)
YoloSetInput ==
    /\ UNCHANGED otherVars
    /\ pc = "yolo_input"
    /\ netInput' = image.scene
    /\ pc' = "yolo_forward"
    /\ UNCHANGED <<net, classes, initEnv, image_path, image, is_day, detections,
                   opencv_detections, primary, heurCalls, heurFailed, raisedExc,
                   escaped, result>>

\* _detect_with_yolo from net.forward on (lines 110-151), back in analyze_image
YoloForward ==
    /\ UNCHANGED otherVars
    /\ pc = "yolo_forward"
    /\ IF ForwardRaises(netInput)
       THEN /\ Raise(InferenceError, image_path)
            /\ UNCHANGED <<detections, primary>>
       ELSE /\ detections' = YoloDetections(Forward(netInput), image.width,
                                            image.height, classes)
            /\ primary' = [ran |-> TRUE, dets |-> detections']
            /\ pc' = AfterPrimary(detections')
            /\ UNCHANGED <<raisedExc, escaped, result>>
    /\ UNCHANGED <<net, classes, initEnv, netInput, image_path, image, is_day,
                   opencv_detections, heurCalls, heurFailed>>

\* one heuristic detector ran and its list was appended (lines 162-171)
HeuristicStep(name, found, raises, next) ==
    /\ UNCHANGED otherVars
    /\ opencv_detections' = opencv_detections \o found
    /\ heurCalls' = Append(heurCalls, name)
    /\ heurFailed' = IF raises THEN heurFailed \cup {name} ELSE heurFailed
    /\ pc' = next
    /\ UNCHANGED <<net, classes, initEnv, netInput, image_path, image, is_day, detections,
                   primary, raisedExc, escaped, result>>

DetectHumans ==
    /\ pc = "human"
    /\ \E hog \in HogOutputs, raises \in BOOLEAN :
          HeuristicStep("human", DetectHumansHog(hog, raises), raises, "vehicle")

DetectVehicles ==
    /\ pc = "vehicle"
    /\ \E contours \in SeqsUpTo(VehicleContours, MaxContours), raises \in BOOLEAN :
          HeuristicStep("vehicle", DetectVehiclesContours(contours, raises), raises, "animal")

DetectAnimals ==
    /\ pc = "animal"
    /\ \E contours \in SeqsUpTo(AnimalContours, MaxContours), raises \in BOOLEAN :
          HeuristicStep("animal", DetectAnimalsTexture(contours, raises), raises, "machinery")

DetectMachinery ==
    /\ pc = "machinery"
    /\ \E hough \in HoughOutputs, raises \in BOOLEAN :
          HeuristicStep("machinery", DetectMachineryEdges(hough, raises), raises, "merge")

\* lines 373-375
Merge ==
    /\ UNCHANGED otherVars
    /\ pc = "merge"
    /\ detections' = MergeDetections(detections, opencv_detections)
    /\ pc' = "assemble"
    /\ UNCHANGED <<net, classes, initEnv, netInput, image_path, image, is_day,
                   opencv_detections, primary, heurCalls, heurFailed, raisedExc,
                   escaped, result>>

\* lines 377-393
Assemble ==
    /\ UNCHANGED otherVars
    /\ pc = "assemble"
    /\ result' = NormalResult(is_day, detections, image_path)
    /\ pc' = "done"
    /\ UNCHANGED <<net, classes, initEnv, netInput, image_path, image, is_day, detections,
                   opencv_detections, primary, heurCalls, heurFailed, raisedExc, escaped>>

\* the caller prints the record (lines 420-431); the locals of the call are gone
ConsumeResult ==
    /\ UNCHANGED otherVars
    /\ pc = "done"
    /\ pc' = "idle"
    /\ image_path' = ""
    /\ image' = NoImage
    /\ is_day' = FALSE
    /\ detections' = <<>>
    /\ opencv_detections' = <<>>
    /\ primary' = NotRun
    /\ heurCalls' = <<>>
    /\ heurFailed' = {}
    /\ raisedExc' = NoException
    /\ escaped' = FALSE
    /\ result' = NoResult
    /\ UNCHANGED <<net, classes, initEnv, netInput>>

\* ----------------------------------------------------------- webhook receiver
\* a JSON object body, by the shape of the fields do_POST reads
JsonObjects ==
    [json : {"object"},
     obj : {"absent", "object", "string", "text_x"},
     status : {"object", "text_fps"},
     all_detections : {"list", "list_of_numbers"},
     top_objects : {"absent", "number"},
     timestamp : {"absent", "string", "number"},
     image : {"absent", "empty", "base64", "not_base64"}]

\* a body that is no JSON, and JSON that is no object
NotJson == [json |-> "invalid"]
JsonList == [json |-> "list"]

Bodies == JsonObjects \cup {NotJson, JsonList}

\* the Content-Length header: missing, the body's length, less, or no number
ContentLengths == {"absent", "exact", "short", "text"}

\* the client's connection: open, closed before the response, or closed after
\* the response headers were written
Sockets == {"open", "closed", "closes_after_headers"}

Requests == [clen : ContentLengths, body : Bodies, socket : Sockets]

\* int(self.headers.get('Content-Length', 0)) raises (line 37)
ContentLengthRaises(req) == req.clen = "text"

\* self.rfile.read(content_length) (line 38): a prefix of a JSON text is no JSON
BodyRead(req) == IF req.clen = "exact" THEN req.body ELSE NotJson

\* json.loads raises (line 42)
ParseRaises(body) == body.json = "invalid"

\* reading and printing the fields raises (lines 45-80)
FieldsRaise(body) ==
    \/ body.json # "object"
    \/ body.obj \in {"string", "text_x"}
    \/ body.status = "text_fps"
    \/ body.all_detections = "list_of_numbers"
    \/ body.top_objects = "number"

\* line 83: 'image' in data and data['image']
SaveImageCalled(body) == body.image \in {"base64", "not_base64"}

\* save_image (lines 98-118) writes the file; any failure inside is caught
SaveImageWrites(body) ==
    /\ SaveImageCalled(body)
    /\ body.timestamp \in {"absent", "string"}
    /\ body.image = "base64"

\* what do_POST does with one request (lines 33-96):
\*   statuses: the codes given to send_response, in order
\*   wire: the codes whose status line reached the client
\*   saved: an image file was written
\*   raised: an exception left do_POST
DoPostOutcome(req) ==
    IF ContentLengthRaises(req)
    THEN [statuses |-> <<>>, wire |-> <<>>, saved |-> FALSE, raised |-> TRUE]
    ELSE LET body == BodyRead(req)
             failed == ParseRaises(body) \/ FieldsRaise(body)
             saved == ~failed /\ SaveImageWrites(body)
         IN IF failed
            THEN \* lines 94-96
                 IF req.socket = "closed"
                 THEN [statuses |-> <<500>>, wire |-> <<>>, saved |-> saved, raised |-> TRUE]
                 ELSE [statuses |-> <<500>>, wire |-> <<500>>, saved |-> saved, raised |-> FALSE]
            ELSE \* lines 87-91, and lines 94-96 when a write raises
                 CASE req.socket = "open" ->
                        [statuses |-> <<200>>, wire |-> <<200>>, saved |-> saved,
                         raised |-> FALSE]
                   [] req.socket = "closed" ->
                        [statuses |-> <<200, 500>>, wire |-> <<>>, saved |-> saved,
                         raised |-> TRUE]
                   [] OTHER ->
                        [statuses |-> <<200, 500>>, wire |-> <<200>>, saved |-> saved,
                         raised |-> TRUE]

NoRequest == [clen |-> "none"]
NoOutcome == [statuses |-> <<>>, wire |-> <<>>, saved |-> FALSE, raised |-> FALSE]

WebhookInit ==
    /\ whPc = "waiting"
    /\ request = NoRequest
    /\ outcome = NoOutcome

\* the server accepts a POST request and calls do_POST
ReceivePost ==
    /\ whPc = "waiting"
    /\ \E req \in Requests : request' = req
    /\ whPc' = "handling"
    /\ outcome' = NoOutcome
    /\ UNCHANGED <<detectorVars, yoloVars, categoryVars, callVars>>

\* do_POST (lines 33-96) with save_image (lines 98-118)
DoPost ==
    /\ whPc = "handling"
    /\ outcome' = DoPostOutcome(request)
    /\ whPc' = "handled"
    /\ UNCHANGED request
    /\ UNCHANGED <<detectorVars, yoloVars, categoryVars, callVars>>

\* the handler finishes and the server waits for the next request
CloseConnection ==
    /\ whPc = "handled"
    /\ whPc' = "waiting"
    /\ request' = NoRequest
    /\ outcome' = NoOutcome
    /\ UNCHANGED <<detectorVars, yoloVars, categoryVars, callVars>>

\* ------------------------------------------- the primary detector by itself
\* largest number of anchors in one inference output
MaxAnchors == 3

\* anchors net.forward may return: two near-duplicates, a neighbour that
\* overlaps both by less than the threshold, two wide boxes that overlap by
\* the threshold exactly, an empty box, and a score equal to the threshold
AnchorChoices ==
    {Anchor(300, 300, 200, 200, 0, 90000),
     Anchor(310, 300, 200, 200, 0, 80000),
     Anchor(400, 300, 200, 200, 16, 90000),
     Anchor(300, 300, 350, 200, 2, 70000),
     Anchor(450, 300, 350, 200, 2, 60000),
     Anchor(800, 800, 0, 0, 0, 70000),
     Anchor(300, 300, 200, 200, 2, 50000)}

YoloIdle ==
    /\ yoloPc = "idle"
    /\ yoloOutputs = <<>>
    /\ yolo_result = <<>>
    /\ resuppressed = <<>>

\* net.forward returned (line 110)
YoloForwarded ==
    /\ yoloPc = "forwarded"
    /\ yoloOutputs \in SeqsUpTo(AnchorChoices, MaxAnchors)
    /\ yolo_result = <<>>
    /\ resuppressed = <<>>

\* _detect_with_yolo after inference (lines 112-151) on a 640 x 480 image,
\* with either class list
YoloParseAndSuppress ==
    /\ yoloPc = "forwarded"
    /\ \E namesExist \in BOOLEAN :
          yolo_result' = YoloDetections(yoloOutputs,
                                        Imread("bright.jpg").width,
                                        Imread("bright.jpg").height,
                                        LoadedClasses(namesExist))
    /\ yoloPc' = "returned"
    /\ UNCHANGED <<yoloOutputs, resuppressed>>
    /\ UNCHANGED <<detectorVars, webhookVars, categoryVars, callVars>>

\* the boxes and confidences of a returned list, as NMSBoxes takes them
AsCandidates(dets) ==
    [k \in 1..Len(dets) |->
        [box |-> dets[k].bbox, confidence |-> dets[k].confidence, class_id |-> 0]]

\* cv2.dnn.NMSBoxes (line 138) applied to the returned list
Resuppress ==
    /\ yoloPc = "returned"
    /\ resuppressed' = NMSBoxes(AsCandidates(yolo_result), confidence_threshold,
                                nms_threshold)
    /\ yoloPc' = "resuppressed"
    /\ UNCHANGED <<yoloOutputs, yolo_result>>
    /\ UNCHANGED <<detectorVars, webhookVars, categoryVars, callVars>>

\* number of analyze_image invocations that share the detector
Invocations == {1, 2}

CategoryIdle ==
    /\ catPc = "idle"
    /\ catArg = ""
    /\ catResult = ""

\* class names not in lower case that _categorize_object may be given
MixedCaseNames ==
    {"Person", "Bicycle", "CAR", "Bus", "Train", "PERSON", "Dog", "ZEBRA", "Giraffe",
     "Truck", "BUS", "TRAIN", "Boat", "Motorcycle", "AirPlane", "Kite",
     "Traffic Light", "Unknown"}

\* the arguments of _categorize_object: every name of either class list, the
\* "unknown" of line 142, and names in other spellings
ClassNames ==
    {CocoClasses[i] : i \in 1..Len(CocoClasses)}
        \cup {FileClasses[i] : i \in 1..Len(FileClasses)}
        \cup {"unknown"} \cup MixedCaseNames

\* _categorize_object is called with a class name (line 146)
CategoryCalled ==
    /\ catPc = "called"
    /\ catArg \in ClassNames
    /\ catResult = ""

\* _categorize_object (lines 331-349) returns
Categorize ==
    /\ catPc = "called"
    /\ catResult' = CategorizeObject(catArg)
    /\ catPc' = "returned"
    /\ UNCHANGED catArg
    /\ UNCHANGED <<detectorVars, webhookVars, yoloVars, callVars>>

CallsIdle ==
    /\ callPc = [t \in Invocations |-> "idle"]
    /\ callImage = [t \in Invocations |-> NoImage]
    /\ callPrimary = [t \in Invocations |-> NotRun]
    /\ callOverlap = [t \in Invocations |-> FALSE]

\* the detector both invocations use: both model files found and loaded, the
\* built-in class list (lines 29-69)
DetectorLoaded ==
    /\ pc = "idle"
    /\ net = LoadedNet(ModelFiles, FALSE)
    /\ classes = LoadedClasses(FALSE)
    /\ initEnv = NoEnv
    /\ netInput = "none"
    /\ image_path = ""
    /\ image = NoImage
    /\ is_day = FALSE
    /\ detections = <<>>
    /\ opencv_detections = <<>>
    /\ primary = NotRun
    /\ heurCalls = <<>>
    /\ heurFailed = {}
    /\ raisedExc = NoException
    /\ escaped = FALSE
    /\ result = NoResult

\* the invocations that are between net.setInput and the return of net.forward
InInference == {u \in Invocations : callPc[u] = "yolo_forward"}

\* analyze_image up to the call of _detect_with_yolo (lines 355-367), for an
\* image that loads on a detector whose handle is loaded
CallAnalyze(t) ==
    /\ callPc[t] = "idle"
    /\ net # NoNet
    /\ \E path \in Paths :
          /\ Imread(path).loaded
          /\ callImage' = [callImage EXCEPT ![t] = Imread(path)]
    /\ callPc' = [callPc EXCEPT ![t] = "yolo_input"]
    /\ UNCHANGED <<callPrimary, callOverlap>>
    /\ UNCHANGED <<detectorVars, webhookVars, yoloVars, categoryVars>>

\* mutant of NetSetInput: the handle keeps the first blob it was given
NetSetInputOnce(current, blob) == IF current = "none" THEN blob ELSE current

\* net.setInput (line 107): the handle now holds the blob
NetSetInput(current, blob) == blob

\* _detect_with_yolo up to net.setInput (lines 100-107) in invocation t; it
\* writes the handle both invocations share
CallSetInput(t) ==
    /\ callPc[t] = "yolo_input"
    /\ netInput' = NetSetInput(netInput, callImage[t].scene)
    /\ callPc' = [callPc EXCEPT ![t] = "yolo_forward"]
    /\ callOverlap' = [u \in Invocations |->
                          IF u = t THEN InInference # {}
                          ELSE callOverlap[u] \/ u \in InInference]
    /\ UNCHANGED <<callImage, callPrimary>>
    /\ UNCHANGED <<pc, net, classes, initEnv, image_path, image, is_day, detections,
                   opencv_detections, primary, heurCalls, heurFailed, raisedExc,
                   escaped, result>>
    /\ UNCHANGED <<webhookVars, yoloVars, categoryVars>>

\* the blobs net.forward may compute from: the one the handle holds; when
\* another invocation wrote the handle or ran inference meanwhile, the
\* accesses are unordered and either invocation's blob may be the one
ForwardInputs(t) ==
    IF callOverlap[t]
    THEN {netInput} \cup {callImage[u].scene : u \in {v \in Invocations : callImage[v].loaded}}
    ELSE {netInput}

\* what _detect_with_yolo hands back for the blob of a scene: the detections
\* of lines 112-151, or nothing when net.forward raised (line 110)
PrimaryFor(scene, img, cls) ==
    IF ForwardRaises(scene) THEN NotRun
    ELSE [ran |-> TRUE,
          dets |-> YoloDetections(Forward(scene), img.width, img.height, cls)]

\* _detect_with_yolo from net.forward on (lines 110-151) in invocation t
CallForward(t) ==
    /\ callPc[t] = "yolo_forward"
    /\ \E scene \in ForwardInputs(t) :
          callPrimary' = [callPrimary EXCEPT
                             ![t] = PrimaryFor(scene, callImage[t], classes)]
    /\ callPc' = [callPc EXCEPT ![t] = "done"]
    /\ UNCHANGED <<callImage, callOverlap>>
    /\ UNCHANGED <<detectorVars, webhookVars, yoloVars, categoryVars>>

\* the rest of analyze_image (lines 369-403) works on locals only; the caller
\* takes the record
CallReturn(t) ==
    /\ callPc[t] = "done"
    /\ callPc' = [callPc EXCEPT ![t] = "idle"]
    /\ callImage' = [callImage EXCEPT ![t] = NoImage]
    /\ callPrimary' = [callPrimary EXCEPT ![t] = NotRun]
    /\ callOverlap' = [callOverlap EXCEPT ![t] = FALSE]
    /\ UNCHANGED <<detectorVars, webhookVars, yoloVars, categoryVars>>

vars == <<detectorVars, webhookVars, yoloVars, categoryVars, callVars>>

Init == DetectorInit /\ WebhookInit /\ YoloIdle /\ CategoryIdle /\ CallsIdle

Next ==
    \/ InitializeDetector
    \/ AnalyzeImage
    \/ DayNight
    \/ YoloSetInput
    \/ YoloForward
    \/ DetectHumans
    \/ DetectVehicles
    \/ DetectAnimals
    \/ DetectMachinery
    \/ Merge
    \/ Assemble
    \/ ConsumeResult

NextWebhook == ReceivePost \/ DoPost \/ CloseConnection

\* the detector process
Spec == Init /\ [][Next]_vars

\* the webhook receiver process
SpecWebhook == Init /\ [][NextWebhook]_vars

InitYolo == DetectorInit /\ WebhookInit /\ YoloForwarded /\ CategoryIdle /\ CallsIdle

NextYolo == YoloParseAndSuppress \/ Resuppress

\* the primary detector applied to every bounded inference output
SpecYolo == InitYolo /\ [][NextYolo]_vars

InitCategory == DetectorInit /\ WebhookInit /\ YoloIdle /\ CategoryCalled /\ CallsIdle

NextCategory == Categorize

\* the category lookup applied to every class name
SpecCategory == InitCategory /\ [][NextCategory]_vars

InitCalls == DetectorLoaded /\ WebhookInit /\ YoloIdle /\ CategoryIdle /\ CallsIdle

NextCalls ==
    \E t \in Invocations :
        \/ CallAnalyze(t)
        \/ CallSetInput(t)
        \/ CallForward(t)
        \/ CallReturn(t)

\* analyze_image invocations interleaved on one detector, no lock
SpecCalls == InitCalls /\ [][NextCalls]_vars

\* ====================================================================== claims
AllHeuristics == <<"human", "vehicle", "animal", "machinery">>

\* the categories of a list of detections, without duplicates
CategoriesOf(dets) == {dets[i].category : i \in 1..Len(dets)}

\* analyze_image returned
Returned == pc = "done"

\* C1: in every record analyze_image returns, objects is the set of the
\* categories of the entries of details, and is ["general scene"] when
\* details is empty.
C1_ObjectsAreCategories ==
    Returned /\ result.kind \in {"normal", "degraded"} =>
        result.objects = IF result.details = <<>> THEN {"general scene"}
                         ELSE CategoriesOf(result.details)

\* a record with fewer categories than detections was returned
C1_Witness ==
    /\ Returned
    /\ result.kind = "normal"
    /\ Len(result.details) >= 2
    /\ Cardinality(result.objects) < Len(result.details)

\* the number of primary detections, 0 when the primary detector did not run
PrimaryCount == Len(primary.dets)

\* analyze_image got past the primary stage (line 370)
PastPrimary ==
    \/ pc \in {"human", "vehicle", "animal", "machinery", "merge", "assemble"}
    \/ Returned /\ result.kind = "normal"

\* C2: the four heuristic detectors are invoked iff the primary detection
\* count is below 2 (0 when no model handle was loaded); with 2 or more primary
\* detections none is invoked and details is the primary detections.
C2_HeuristicsIffFewPrimary ==
    /\ net = NoNet => ~primary.ran
    /\ heurCalls # <<>> => PrimaryCount < MinPrimary
    /\ PastPrimary /\ pc \in {"merge", "assemble", "done"} =>
          /\ heurCalls = AllHeuristics <=> PrimaryCount < 2
          /\ PrimaryCount >= 2 => heurCalls = <<>> /\ detections = primary.dets
    /\ Returned /\ result.kind = "normal" /\ PrimaryCount >= 2 =>
          result.details = primary.dets

\* a record was returned from two or more primary detections, no heuristic run
C2_Witness ==
    /\ Returned
    /\ result.kind = "normal"
    /\ primary.ran
    /\ PrimaryCount >= 2
    /\ heurCalls = <<>>
    /\ result.details = primary.dets

\* heuristic detection i is kept by the merge: no primary detection and no
\* earlier heuristic detection carries its category
KeptByMerge(i) ==
    /\ \A k \in 1..Len(primary.dets) : primary.dets[k].category # opencv_detections[i].category
    /\ \A j \in 1..(i - 1) : opencv_detections[j].category # opencv_detections[i].category

\* the heuristic detections KeptByMerge keeps, from index i on, in list order
RECURSIVE KeptFrom(_)
KeptFrom(i) ==
    IF i > Len(opencv_detections) THEN <<>>
    ELSE (IF KeptByMerge(i) THEN <<opencv_detections[i]>> ELSE <<>>) \o KeptFrom(i + 1)

\* position of a heuristic category in the fixed call order
HeuristicRank(category) ==
    CASE category = "human" -> 1
      [] category = "vehicle" -> 2
      [] category = "animal" -> 3
      [] OTHER -> 4

\* C3: when the heuristics ran, details is the primary detections unchanged and
\* in order, followed in heuristic output order (human, vehicle, animal,
\* machinery) by exactly the heuristic detections whose category no earlier
\* entry carried; at most one heuristic detection per category is kept and no
\* primary detection is replaced.
C3_MergeKeepsFirstPerCategory ==
    Returned /\ result.kind = "normal" /\ heurCalls # <<>> =>
        /\ result.details = primary.dets \o KeptFrom(1)
        /\ \A i, j \in 1..Len(opencv_detections) :
              i < j => HeuristicRank(opencv_detections[i].category)
                          <= HeuristicRank(opencv_detections[j].category)
        /\ \A i, j \in (Len(primary.dets) + 1)..Len(result.details) :
              i # j => result.details[i].category # result.details[j].category
        /\ \A k \in 1..Len(primary.dets) : result.details[k] = primary.dets[k]

\* a primary detection survived a same-category heuristic detection of higher
\* confidence, and one detector's second detection was dropped
C3_Witness ==
    /\ Returned
    /\ result.kind = "normal"
    /\ Len(primary.dets) = 1
    /\ \E i \in 1..Len(opencv_detections) :
          /\ opencv_detections[i].category = primary.dets[1].category
          /\ opencv_detections[i].confidence > primary.dets[1].confidence
    /\ \E i, j \in 1..Len(opencv_detections) :
          i < j /\ opencv_detections[i].category = opencv_detections[j].category
    /\ Len(result.details) >= 3

\* C4: analyze_image never raises: every call returns one record, and when a
\* step fails inside its try block (the image failing to load included) the
\* record is the degraded one: isDay true, objects ["general scene"], details
\* empty, the error text in the summary, photoPath the path passed in.
\* (A failure a heuristic detector catches itself is the case of C10.)
C4_NeverRaisesDegradedOnFailure ==
    /\ ~escaped
    /\ Returned => result.kind \in {"normal", "degraded"}
    /\ Returned /\ ~image.loaded => raisedExc = ValueError(image_path)
    /\ Returned /\ result.kind = "normal" => raisedExc = NoException
    /\ Returned /\ raisedExc # NoException =>
          /\ result.kind = "degraded"
          /\ result.isDay = TRUE
          /\ result.objects = {"general scene"}
          /\ result.details = <<>>
          /\ result.summary = [error |-> raisedExc.text]
          /\ result.photoPath = image_path

\* inference failed on an image the classifier called night: the degraded
\* record says day
C4_Witness ==
    /\ Returned
    /\ raisedExc.type = "cv2.error"
    /\ image.loaded
    /\ ~is_day
    /\ result.kind = "degraded"
    /\ result.isDay

\* C5: if inference raises while a model handle is present, the failure counts
\* as zero primary detections: the heuristic detectors still run and the record
\* is a normal one with the computed isDay and the heuristic detections.
C5_InferenceFailureCountsAsNoDetections ==
    Returned /\ net # NoNet /\ raisedExc = InferenceError =>
        /\ result.kind = "normal"
        /\ result.isDay = is_day
        /\ heurCalls = AllHeuristics
        /\ CategoriesOf(result.details) = CategoriesOf(opencv_detections)

\* the handle the claim expects for the files on disk
ExpectedNet(fs) ==
    IF WeightsPath \in fs /\ ConfigPath \in fs THEN "yolov3"
    ELSE IF TinyWeightsPath \in fs /\ TinyConfigPath \in fs THEN "yolov3-tiny"
    ELSE NoNet

\* C6: model loading yields the primary model when the primary weight and
\* config files both exist, otherwise the secondary model when the secondary
\* weight and config files both exist, and no handle only when neither pair is
\* complete (stated for loads in which reading the network does not raise).
C6_LoadsFirstCompletePair ==
    initEnv.fresh /\ ~initEnv.raised => net = ExpectedNet(initEnv.files)

\* confidences of the detections in dets lie in lo < c <= hi
ConfidencesWithin(dets, lo, hi) ==
    \A i \in 1..Len(dets) : lo < dets[i].confidence /\ dets[i].confidence <= hi

\* the heuristic detections of one category
OfCategory(dets, category) == SelectSeq(dets, LAMBDA d : d.category = category)

\* C7: every detection of any detector has a confidence in [0, 1]; vehicle
\* confidence is in (0, 0.7], animal in (0, 0.6], machinery in (0, 0.7] and
\* human in (0.3, 1.0].
C7_ConfidenceRanges ==
    /\ \A dets \in {detections, opencv_detections, primary.dets} :
          \A i \in 1..Len(dets) :
              0 <= dets[i].confidence /\ dets[i].confidence <= ConfOne
    /\ result.kind \in {"normal", "degraded"} =>
          \A i \in 1..Len(result.details) :
              0 <= result.details[i].confidence /\ result.details[i].confidence <= ConfOne
    /\ ConfidencesWithin(OfCategory(opencv_detections, "vehicle"), 0, 70000)
    /\ ConfidencesWithin(OfCategory(opencv_detections, "animal"), 0, 60000)
    /\ ConfidencesWithin(OfCategory(opencv_detections, "machinery"), 0, 70000)
    /\ ConfidencesWithin(OfCategory(opencv_detections, "human"), 30000, 100000)

\* a returned record holds a human at 1.0, a vehicle at 0.7, an animal at 0.6
\* and a machinery detection at 0.7: every cap is reached
C7_Witness ==
    /\ Returned
    /\ result.kind = "normal"
    /\ \E i \in 1..Len(result.details) :
          result.details[i].category = "human" /\ result.details[i].confidence = 100000
    /\ \E i \in 1..Len(result.details) :
          result.details[i].category = "vehicle" /\ result.details[i].confidence = 70000
    /\ \E i \in 1..Len(result.details) :
          result.details[i].category = "animal" /\ result.details[i].confidence = 60000
    /\ \E i \in 1..Len(result.details) :
          result.details[i].category = "machinery" /\ result.details[i].confidence = 70000

\* pixels of gray whose brightness lies in lo..hi
CountLevels(gray, lo, hi) ==
    Cardinality({i \in 1..Len(gray) : lo <= gray[i] /\ gray[i] <= hi})

\* the rule of the claim, on the image alone
DayRule ==
    LET gray == ToGray(image.pixels)
        n == Len(gray)
        total == SumSeq(gray)
    IN \/ total > 80 * n
       \/ total > 50 * n /\ 2 * CountLevels(gray, 128, 255) > 3 * CountLevels(gray, 0, 127)

\* the scene classifier ran on the loaded image
Classified == image.loaded /\ pc # "day_night"

\* C8: the scene classifier returns day exactly when mean brightness > 80, or
\* mean brightness > 50 and the pixels in bins 128..255 outnumber 1.5 times
\* those in bins 0..127; a uniform image of value 200 is day, one of value 10
\* is night.
C8_DayNightRule ==
    /\ Classified => (is_day <=> DayRule)
    /\ Classified /\ (\A i \in 1..Len(image.pixels) : image.pixels[i] = <<200, 200, 200>>)
          => is_day
    /\ Classified /\ (\A i \in 1..Len(image.pixels) : image.pixels[i] = <<10, 10, 10>>)
          => ~is_day
    /\ Returned /\ result.kind = "normal" => result.isDay = is_day

\* an image of mean brightness 80 is day by its histogram alone
C8_Witness ==
    /\ Classified
    /\ is_day
    /\ SumSeq(ToGray(image.pixels)) = 80 * Len(image.pixels)
    /\ 2 * CountLevels(ToGray(image.pixels), 128, 255)
          > 3 * CountLevels(ToGray(image.pixels), 0, 127)

\* C9: the webhook receiver answers every POST with exactly one response
\* status, 200 or 500; a 200 and a 500 are never both sent for one request.
\* (Stated for clients that keep the connection open.)
C9_ExactlyOneStatus ==
    whPc = "handled" /\ request.socket = "open" =>
        /\ outcome.wire \in {<<200>>, <<500>>}
        /\ outcome.statuses = outcome.wire
        /\ ~outcome.raised

\* C10 (a detector bears the name of the category it emits):
\* a heuristic sub-detector that fails internally raises nothing and
\* contributes no detection, the sub-detectors after it in the fixed order
\* still run and their detections reach the merge, and the record returned is
\* not the degraded one.
C10_FailedHeuristicIsEmpty ==
    heurFailed # {} =>
        /\ ~escaped
        /\ raisedExc = NoException
        /\ \A name \in heurFailed : OfCategory(opencv_detections, name) = <<>>
        /\ \E n \in 1..4 : heurCalls = SubSeq(AllHeuristics, 1, n)
        /\ pc \in {"merge", "assemble", "done"} => heurCalls = AllHeuristics
        /\ Returned =>
              /\ result.kind = "normal"
              /\ \A i \in 1..Len(opencv_detections) :
                    opencv_detections[i].category \in CategoriesOf(result.details)

\* the vehicle detector failed, and the animal and machinery detections made
\* after it are in the record
C10_Witness ==
    /\ Returned
    /\ result.kind = "normal"
    /\ heurFailed = {"vehicle"}
    /\ {"animal", "machinery"} \subseteq CategoriesOf(OfCategory(opencv_detections, "animal")
                                            \o OfCategory(opencv_detections, "machinery"))
    /\ {"animal", "machinery"} \subseteq CategoriesOf(result.details)

\* the intersection of two returned boxes is more than 0.4 of their union
IouAboveNms(a, b) ==
    LET ix == Min(a[1] + a[3], b[1] + b[3]) - Max(a[1], b[1])
        iy == Min(a[2] + a[4], b[2] + b[4]) - Max(a[2], b[2])
        inter == IF ix > 0 /\ iy > 0 THEN ix * iy ELSE 0
        union == a[3] * a[4] + b[3] * b[4] - inter
    IN (ConfOne \div 1000) * inter > (nms_threshold \div 1000) * union

\* C11: what the primary detector returns is a fixed point of its suppression
\* step: every returned confidence is above the confidence threshold, no two
\* returned boxes overlap by more than the overlap threshold, and suppressing
\* the returned list again keeps every element, in the same order.
C11_SuppressionFixedPoint ==
    /\ yoloPc \in {"returned", "resuppressed"} =>
          /\ \A k \in 1..Len(yolo_result) :
                yolo_result[k].confidence > confidence_threshold
          /\ \A j, k \in 1..Len(yolo_result) :
                j # k => ~IouAboveNms(yolo_result[j].bbox, yolo_result[k].bbox)
    /\ yoloPc = "resuppressed" =>
          resuppressed = [k \in 1..Len(yolo_result) |-> k]

\* suppression dropped a candidate and left more than one detection, and the
\* returned list was suppressed again
C11_Witness ==
    /\ yoloPc = "resuppressed"
    /\ Len(yolo_result) >= 2
    /\ Len(yolo_result) <
          Len(ParseOutputs(yoloOutputs, Imread("bright.jpg").width,
                           Imread("bright.jpg").height))

\* the classes the lookup is stated over
ListedTransport == {"car", "motorcycle", "bus", "truck", "bicycle", "airplane", "boat"}
ListedAnimals ==
    {"bird", "cat", "dog", "horse", "sheep", "cow", "elephant", "bear", "zebra", "giraffe"}
HeavyVehicles == {"truck", "bus", "train"}

\* C12 as stated: the lookup maps, whatever the case of the name, person to
\* human, every listed animal class to animal, every listed transport class
\* (bus and truck among them) to vehicle, train to machinery, and a class in
\* none of the lists to its own lower-cased name.
C12_TransportIsVehicle ==
    catPc = "returned" =>
        LET name == Lower(catArg) IN
        /\ name = "person" => catResult = "human"
        /\ name \in ListedAnimals => catResult = "animal"
        /\ name \in ListedTransport => catResult = "vehicle"
        /\ name \in HeavyVehicles \ ListedTransport => catResult = "machinery"
        /\ name \notin {"person"} \cup ListedAnimals \cup ListedTransport
                           \cup HeavyVehicles => catResult = name

\* C12 amended: the heavy-vehicle test comes before the transport test, so
\* every heavy-vehicle class (truck, bus, train) maps to machinery and only
\* the other listed transport classes map to vehicle; the rest is as stated.
C12_HeavyVehicleIsMachinery ==
    catPc = "returned" =>
        LET name == Lower(catArg) IN
        /\ name = "person" => catResult = "human"
        /\ name \in ListedAnimals => catResult = "animal"
        /\ name \in HeavyVehicles => catResult = "machinery"
        /\ name \in ListedTransport \ HeavyVehicles => catResult = "vehicle"
        /\ name \notin {"person"} \cup ListedAnimals \cup ListedTransport
                           \cup HeavyVehicles => catResult = name

\* the lookup returned for a bus that was not spelled in lower case
C12_Witness ==
    /\ catPc = "returned"
    /\ catArg # Lower(catArg)
    /\ Lower(catArg) = "bus"
    /\ catResult = "machinery"

\* what invocation t gets from the primary detector for its own image
OwnPrimary(t) == PrimaryFor(callImage[t].scene, callImage[t], classes)

\* C13 as stated: two invocations share the loaded handle and run without a
\* lock; under every interleaving of their steps each invocation's primary
\* detections are the ones computed from its own image.
C13_OwnImageUnderEveryInterleaving ==
    \A t \in Invocations : callPc[t] = "done" => callPrimary[t] = OwnPrimary(t)

\* C13 amended: net.setInput writes the shared handle, so an invocation's
\* primary detections are the ones computed from its own image whenever no
\* other invocation was between net.setInput and the return of net.forward
\* while it was, that is, when the callers serialize the inference calls.
C13_OwnImageWhenSerialized ==
    \A t \in Invocations :
        callPc[t] = "done" /\ ~callOverlap[t] => callPrimary[t] = OwnPrimary(t)

\* both invocations ran inference one after the other on images with
\* different detections; the handle holds the blob of the second
C13_Witness ==
    /\ callPc[1] = "done" /\ callPc[2] = "done"
    /\ ~callOverlap[1] /\ ~callOverlap[2]
    /\ callPrimary[1].ran /\ callPrimary[2].ran
    /\ callPrimary[1].dets # <<>>
    /\ callPrimary[1].dets # callPrimary[2].dets
    /\ netInput = callImage[2].scene

====
